---- MODULE Spec2Model ----
(***************************************************************************)
(* A model of model/pgn/layers.py: the Encoder, Decoder, Attention and     *)
(* Pointer layers of a pointer-generator network, and the script under     *)
(* `if __name__ == '__main__'`.                                            *)
(*                                                                         *)
(* Real numbers are fixed-point integers with ONE standing for 1.0, so     *)
(* every tensor operation rounds to a finite precision as float32 does.    *)
(* Python strings are tuples of one-character strings so that str.lower()  *)
(* is computed character by character.  An absent value (Python's None)    *)
(* is the empty tuple and a present value x is the one-element tuple <<x>>.*)
(***************************************************************************)
EXTENDS Integers, Sequences, FiniteSets, TLC

VARIABLES
    encoder,            \* the Encoder object, if one was constructed
    decoder,            \* the Decoder object, if one was constructed
    attention,          \* the Attention object, if one was constructed
    pointer,            \* the Pointer object, if one was constructed
    enc_out,         \* the encoder output sequence the decode steps read
    pad_mask,   \* the padding mask aligned with enc_out
    call,               \* the last operation: its name, arguments, result
    attns,              \* attention distributions of the running coverage chain
    main                \* locals of the __main__ script

vars == <<encoder, decoder, attention, pointer, enc_out, pad_mask,
          call, attns, main>>

(***************************************************************************)
(* Bounds of the model.                                                    *)
(***************************************************************************)
ONE == 1000          \* fixed-point unit: the integer n stands for n / ONE
MaxBatch == 2        \* largest batch size
MaxUnits == 2        \* largest number of recurrent units
MaxLen == 2          \* input sequence length
MaxSteps == 3        \* decode steps in one coverage chain
ExpTerms == 6        \* terms of the exponential series

(***************************************************************************)
(* Python values.                                                          *)
(***************************************************************************)
None == << >>
Some(x) == <<x>>
Val(o) == o[1]
IsNone(o) == o = << >>

UpperChars ==
    <<"A","B","C","D","E","F","G","H","I","J","K","L","M",
      "N","O","P","Q","R","S","T","U","V","W","X","Y","Z">>
LowerChars ==
    <<"a","b","c","d","e","f","g","h","i","j","k","l","m",
      "n","o","p","q","r","s","t","u","v","w","x","y","z">>

\* the lower-case letter of every upper-case letter
LowerOf ==
    [c \in {UpperChars[i] : i \in DOMAIN UpperChars} |->
        LowerChars[CHOOSE i \in DOMAIN UpperChars : UpperChars[i] = c]]

\* str.lower() on one character
LowerChar(c) == IF c \in DOMAIN LowerOf THEN LowerOf[c] ELSE c

\* str.lower()
Lower(s) == [i \in DOMAIN s |-> LowerChar(s[i])]

STR_gru == <<"g","r","u">>
STR_lstm == <<"l","s","t","m">>
STR_GRU == <<"G","R","U">>
STR_rnn == <<"r","n","n">>

\* the rnn_type arguments the constructors are tried with
RnnTypeInputs == {STR_gru, STR_lstm, STR_GRU, STR_rnn}

RnnError == "Exception: Only GRU and LSTM are supported now."

\* tf.zeros((batch_size, units))
Zeros(batch_size, units) == [b \in 1..batch_size |-> [u \in 1..units |-> 0]]

(***************************************************************************)
(* Encoder                                                                 *)
(***************************************************************************)
\* (variant: an unsupported rnn_type silently falls back to the GRU cell)
EncoderInitDefaulting(vocab_size, embedding_dim, enc_units, batch_sz, rnn_type, bidirectional, embedding_matrix) ==
    [raised |-> "",
     obj |-> Some([vocab_size |-> vocab_size, embedding_dim |-> embedding_dim,
                   enc_units |-> enc_units, batch_sz |-> batch_sz,
                   rnn_type |-> rnn_type, bidirectional |-> bidirectional,
                   trainable |-> IsNone(embedding_matrix),
                   cell |-> IF Lower(rnn_type) = STR_lstm THEN "LSTM" ELSE "GRU"])]

\* Encoder.__init__: the layer object, or the exception it raises
EncoderInit(vocab_size, embedding_dim, enc_units, batch_sz, rnn_type, bidirectional, embedding_matrix) ==
    IF Lower(rnn_type) = STR_gru \/ Lower(rnn_type) = STR_lstm
    THEN [raised |-> "",
          obj |-> Some([vocab_size |-> vocab_size, embedding_dim |-> embedding_dim,
                        enc_units |-> enc_units, batch_sz |-> batch_sz,
                        rnn_type |-> rnn_type, bidirectional |-> bidirectional,
                        trainable |-> IsNone(embedding_matrix),
                        cell |-> IF Lower(rnn_type) = STR_gru THEN "GRU" ELSE "LSTM"])]
    ELSE [raised |-> RnnError, obj |-> None]

\* (variant: the batch_size argument is ignored)
InitializeHiddenStateNoArg(self, batch_size) ==
    LET dim == Zeros(self.batch_sz, self.enc_units)
    IN  IF Lower(self.rnn_type) = STR_gru
        THEN IF self.bidirectional
             THEN [raised |-> "", is_list |-> TRUE, tensors |-> <<dim, dim>>]
             ELSE [raised |-> "", is_list |-> FALSE, tensors |-> <<dim>>]
        ELSE IF Lower(self.rnn_type) = STR_lstm
        THEN IF self.bidirectional
             THEN [raised |-> "", is_list |-> TRUE, tensors |-> <<dim, dim, dim, dim>>]
             ELSE [raised |-> "", is_list |-> TRUE, tensors |-> <<dim, dim>>]
        ELSE [raised |-> RnnError, is_list |-> FALSE, tensors |-> << >>]

\* Encoder.initialize_hidden_state: a bare tensor, or a list of tensors
InitializeHiddenState(self, batch_size) ==
    LET bs == IF IsNone(batch_size) THEN self.batch_sz ELSE Val(batch_size)
        dim == Zeros(bs, self.enc_units)
    IN  IF Lower(self.rnn_type) = STR_gru
        THEN IF self.bidirectional
             THEN [raised |-> "", is_list |-> TRUE, tensors |-> <<dim, dim>>]
             ELSE [raised |-> "", is_list |-> FALSE, tensors |-> <<dim>>]
        ELSE IF Lower(self.rnn_type) = STR_lstm
        THEN IF self.bidirectional
             THEN [raised |-> "", is_list |-> TRUE, tensors |-> <<dim, dim, dim, dim>>]
             ELSE [raised |-> "", is_list |-> TRUE, tensors |-> <<dim, dim>>]
        ELSE [raised |-> RnnError, is_list |-> FALSE, tensors |-> << >>]

(***************************************************************************)
(* Decoder                                                                 *)
(***************************************************************************)
\* Decoder.__init__: the layer object, or the exception it raises
DecoderInit(vocab_size, embedding_dim, dec_units, batch_sz, rnn_type, embedding_matrix) ==
    IF Lower(rnn_type) = STR_gru \/ Lower(rnn_type) = STR_lstm
    THEN [raised |-> "",
          obj |-> Some([vocab_size |-> vocab_size, embedding_dim |-> embedding_dim,
                        dec_units |-> dec_units, batch_sz |-> batch_sz,
                        rnn_type |-> rnn_type,
                        trainable |-> IsNone(embedding_matrix),
                        cell |-> IF Lower(rnn_type) = STR_gru THEN "GRU" ELSE "LSTM"])]
    ELSE [raised |-> RnnError, obj |-> None]

(***************************************************************************)
(* Operations on the recurrent layers                                      *)
(***************************************************************************)
NoCall == [op |-> "", args |-> << >>, raised |-> "", ret |-> << >>]

\* encoder = Encoder(...): a raising constructor binds no object
NewEncoder(vocab_size, embedding_dim, enc_units, batch_sz, rnn_type, bidirectional, embedding_matrix) ==
    LET r == EncoderInit(vocab_size, embedding_dim, enc_units, batch_sz, rnn_type,
                         bidirectional, embedding_matrix)
    IN  /\ encoder' = IF r.raised = "" THEN r.obj ELSE encoder
        /\ call' = [op |-> "Encoder.__init__",
                    args |-> [rnn_type |-> rnn_type, enc_units |-> enc_units,
                              batch_sz |-> batch_sz, bidirectional |-> bidirectional],
                    raised |-> r.raised, ret |-> r.obj]

\* decoder = Decoder(...)
NewDecoder(vocab_size, embedding_dim, dec_units, batch_sz, rnn_type, embedding_matrix) ==
    LET r == DecoderInit(vocab_size, embedding_dim, dec_units, batch_sz, rnn_type,
                         embedding_matrix)
    IN  /\ decoder' = IF r.raised = "" THEN r.obj ELSE decoder
        /\ call' = [op |-> "Decoder.__init__",
                    args |-> [rnn_type |-> rnn_type, dec_units |-> dec_units,
                              batch_sz |-> batch_sz],
                    raised |-> r.raised, ret |-> r.obj]

\* hidden = encoder.initialize_hidden_state(batch_size)
CallInitializeHiddenState(batch_size) ==
    /\ ~IsNone(encoder)
    /\ call' = [op |-> "Encoder.initialize_hidden_state",
                args |-> [batch_size |-> batch_size],
                raised |-> InitializeHiddenState(Val(encoder), batch_size).raised,
                ret |-> InitializeHiddenState(Val(encoder), batch_size)]
    /\ UNCHANGED encoder

NoMain == [pc |-> "idle"]

\* the variables the recurrent-layer operations leave alone
RnnFrame == UNCHANGED <<attention, pointer, enc_out, pad_mask, attns, main>>

RnnInit ==
    /\ encoder = None /\ decoder = None /\ attention = None /\ pointer = None
    /\ enc_out = << >> /\ pad_mask = << >>
    /\ call = NoCall /\ attns = << >> /\ main = NoMain

RnnEncoderStep ==
    \E rnn_type \in RnnTypeInputs, bidirectional \in BOOLEAN,
       enc_units \in 1..MaxUnits, batch_sz \in 1..MaxBatch,
       embedding_matrix \in {None} :
        /\ NewEncoder(MaxUnits, MaxUnits, enc_units, batch_sz, rnn_type,
                      bidirectional, embedding_matrix)
        /\ UNCHANGED decoder /\ RnnFrame

RnnDecoderStep ==
    \E rnn_type \in RnnTypeInputs :
        /\ NewDecoder(MaxUnits, MaxUnits, MaxUnits, MaxBatch, rnn_type, None)
        /\ UNCHANGED encoder /\ RnnFrame

RnnHiddenStep ==
    \E batch_size \in {None} \cup {Some(n) : n \in 0..MaxBatch} :
        /\ CallInitializeHiddenState(batch_size)
        /\ UNCHANGED decoder /\ RnnFrame

RnnNext == RnnEncoderStep \/ RnnDecoderStep \/ RnnHiddenStep

SpecRnn == RnnInit /\ [][RnnNext]_vars

(***************************************************************************)
(* Claims about the recurrent layers, checked under SpecRnn                *)
(***************************************************************************)
SupportedRnn(rnn_type) == Lower(rnn_type) = STR_gru \/ Lower(rnn_type) = STR_lstm

IsRnnInit == call.op = "Encoder.__init__" \/ call.op = "Decoder.__init__"

\* C5 (as amended): an rnn_type whose lower-cased form is neither 'gru' nor
\* 'lstm' makes Encoder.__init__ and Decoder.__init__ raise and yield no
\* object, so every constructed Encoder or Decoder holds an rnn_type that is
\* 'gru' or 'lstm' up to letter case, bound to the matching cell.
C5_UnsupportedRnnRaisesAtConstruction ==
    /\ (IsRnnInit /\ ~SupportedRnn(call.args.rnn_type))
          => (call.raised = RnnError /\ IsNone(call.ret))
    /\ (IsRnnInit /\ SupportedRnn(call.args.rnn_type))
          => (call.raised = "" /\ ~IsNone(call.ret))
    /\ ~IsNone(encoder) =>
          /\ SupportedRnn(Val(encoder).rnn_type)
          /\ Val(encoder).cell = "LSTM" <=> Lower(Val(encoder).rnn_type) = STR_lstm
    /\ ~IsNone(decoder) =>
          /\ SupportedRnn(Val(decoder).rnn_type)
          /\ Val(decoder).cell = "LSTM" <=> Lower(Val(decoder).rnn_type) = STR_lstm

\* C5 witness: Encoder('rnn') has just raised, and so has Decoder('rnn') before it
C5_Witness ==
    /\ call.op = "Encoder.__init__"
    /\ call.args.rnn_type = STR_rnn
    /\ call.raised = RnnError
    /\ IsNone(encoder)
    /\ ~IsNone(decoder)

\* C5 as stated: every rnn_type that is not exactly 'gru' or 'lstm' raises at
\* construction, and every constructed layer holds exactly 'gru' or 'lstm'.
C5_AsStated ==
    /\ (IsRnnInit /\ call.args.rnn_type \notin {STR_gru, STR_lstm})
          => (call.raised = RnnError /\ IsNone(call.ret))
    /\ ~IsNone(encoder) => Val(encoder).rnn_type \in {STR_gru, STR_lstm}
    /\ ~IsNone(decoder) => Val(decoder).rnn_type \in {STR_gru, STR_lstm}

\* the number of state tensors of a cell kind and directionality
StateCount(cell, bidirectional) ==
    (IF cell = "LSTM" THEN 2 ELSE 1) * (IF bidirectional THEN 2 ELSE 1)

\* t is the all-zero tensor of shape (batch, units)
IsZeroTensor(t, batch, units) ==
    /\ Len(t) = batch
    /\ \A b \in 1..batch : Len(t[b]) = units /\ \A u \in 1..units : t[b][u] = 0

\* C6: Encoder.initialize_hidden_state never raises on a constructed Encoder
\* and returns 1, 2, 2 or 4 all-zero tensors (GRU, bidirectional GRU, LSTM,
\* bidirectional LSTM), a bare tensor exactly when the count is 1, each of
\* shape (batch, enc_units) with batch the batch_size argument when one is
\* given and the constructor's batch_sz otherwise.
C6_InitialHiddenState ==
    call.op = "Encoder.initialize_hidden_state" =>
        LET self == Val(encoder)
            batch == IF IsNone(call.args.batch_size) THEN self.batch_sz ELSE Val(call.args.batch_size)
        IN  /\ call.raised = ""
            /\ Len(call.ret.tensors) = StateCount(self.cell, self.bidirectional)
            /\ call.ret.is_list <=> Len(call.ret.tensors) # 1
            /\ \A i \in DOMAIN call.ret.tensors :
                   IsZeroTensor(call.ret.tensors[i], batch, self.enc_units)

\* C6 witness: a bidirectional LSTM encoder returned four states for a batch
\* size that is not its own batch_sz
C6_Witness ==
    /\ call.op = "Encoder.initialize_hidden_state"
    /\ Val(encoder).cell = "LSTM" /\ Val(encoder).bidirectional
    /\ ~IsNone(call.args.batch_size)
    /\ Val(call.args.batch_size) # Val(encoder).batch_sz
    /\ Val(call.args.batch_size) > 0
    /\ Len(call.ret.tensors) = 4

(***************************************************************************)
(* Fixed-point arithmetic                                                  *)
(***************************************************************************)
Max2(a, b) == IF a >= b THEN a ELSE b
Abs(a) == IF a >= 0 THEN a ELSE -a

\* a / b rounded to the nearest integer (b > 0)
Round(a, b) == (2 * a + b) \div (2 * b)

\* the product of two fixed-point numbers
FxMul(a, b) == (a \div ONE) * b + Round((a % ONE) * b, ONE)

\* the quotient of two fixed-point numbers (b > 0)
FxDiv(a, b) == Round(a * ONE, b)

RECURSIVE ExpSeries(_, _, _)
\* the terms x^k / k! of the exponential series from the k-th on
ExpSeries(x, k, term) ==
    IF k > ExpTerms THEN 0
    ELSE LET t == Round(FxMul(term, x), k) IN t + ExpSeries(x, k + 1, t)

\* the fixed-point value of e
EFx == ONE + ExpSeries(ONE, 1, ONE)

RECURSIVE ExpPos(_)
\* exp(x) for x >= 0
ExpPos(x) == IF x >= ONE THEN FxMul(ExpPos(x - ONE), EFx) ELSE ONE + ExpSeries(x, 1, ONE)

\* exp(x)
ExpFx(x) == IF x >= 0 THEN ExpPos(x) ELSE FxDiv(ONE, ExpPos(-x))

RECURSIVE SqrtSearch(_, _, _)
\* the largest r in lo..hi with r * r <= n
SqrtSearch(n, lo, hi) ==
    IF lo >= hi THEN lo
    ELSE LET mid == (lo + hi + 1) \div 2
         IN  IF mid * mid <= n THEN SqrtSearch(n, mid, hi) ELSE SqrtSearch(n, lo, mid - 1)

\* sqrt(a) of a fixed-point number a >= 0
FxSqrt(a) == SqrtSearch(a * ONE, 0, Max2(1, a) * 40)

\* tf.nn.tanh: 1 - 2 / (exp(2x) + 1), which is 1 to the precision from x = 5 on
RECURSIVE Tanh(_)
Tanh(x) ==
    IF x < 0 THEN -Tanh(-x)
    ELSE IF x >= 5 * ONE THEN ONE
    ELSE ONE - FxDiv(2 * ONE, ExpFx(2 * x) + ONE)

\* (variant: no squashing, the pre-activation itself)
SigmoidIdentity(x) == x

\* tf.nn.sigmoid: 1 / (1 + exp(-x))
Sigmoid(x) == FxDiv(ONE, ONE + ExpFx(-x))

\* the sequence v with every entry computed
Seq1(v) == v \o << >>

RECURSIVE SumTo(_, _)
\* v[1] + ... + v[n]
SumTo(v, n) == IF n = 0 THEN 0 ELSE v[n] + SumTo(v, n - 1)

\* tf.reduce_sum of a vector
Sum(v) == SumTo(v, Len(v))

RECURSIVE MaxTo(_, _)
MaxTo(v, n) == IF n = 1 THEN v[1] ELSE Max2(v[n], MaxTo(v, n - 1))

\* tf.nn.softmax of a vector: exp(x - max x) / sum exp(x - max x)
Softmax(v) ==
    LET m == MaxTo(v, Len(v))
        ex == Seq1([l \in DOMAIN v |-> ExpFx(v[l] - m)])
        total == Sum(ex)
    IN  Seq1([l \in DOMAIN v |-> FxDiv(ex[l], total)])

\* tf.nn.l2_normalize of a vector: x / sqrt(max(sum(x^2), epsilon)), with the
\* smallest positive fixed-point number for epsilon
L2Normalize(v) ==
    LET norm == FxSqrt(Max2(Sum([i \in DOMAIN v |-> FxMul(v[i], v[i])]), 1))
    IN  Seq1([i \in DOMAIN v |-> FxDiv(v[i], norm)])

\* whether two last dimensions broadcast against each other
Broadcasts(n, m) == n = m \/ n = 1 \/ m = 1

\* the i-th entry of a vector broadcast from length 1
At(v, i) == IF Len(v) = 1 THEN v[1] ELSE v[i]

\* the elementwise product v * w of two vectors that broadcast
Mul(v, w) == Seq1([i \in 1..Max2(Len(v), Len(w)) |-> FxMul(At(v, i), At(w, i))])

\* tf.keras.layers.Dense(units) on a vector: its kernel holds `kernel` in
\* every entry and its bias is zero
Dense(kernel, units, v) ==
    LET y == Sum([i \in DOMAIN v |-> FxMul(v[i], kernel)]) IN Seq1([u \in 1..units |-> y])

(***************************************************************************)
(* Attention                                                               *)
(***************************************************************************)
STR_additive_concat == <<"a","d","d","i","t","i","v","e","-","c","o","n","c","a","t">>
STR_dot_product == <<"d","o","t","-","p","r","o","d","u","c","t">>
STR_general == <<"g","e","n","e","r","a","l">>
STR_cosine_similarity == <<"c","o","s","i","n","e","-","s","i","m","i","l","a","r","i","t","y">>
STR_Dot_Product == <<"D","o","t","-","P","r","o","d","u","c","t">>
STR_bilinear == <<"b","i","l","i","n","e","a","r">>

\* the exceptions a forward pass of the layer ends with
UnboundLocalError == "UnboundLocalError: local variable 'e' referenced before assignment"
IncompatibleShapes == "InvalidArgumentError: Incompatible shapes"
NotEnoughValues == "ValueError: not enough values to unpack (expected 2, got 1)"
TooManyValues == "ValueError: too many values to unpack (expected 2)"

\* Attention.__init__: the layer object; `kernels` are the values the four
\* Dense layers' kernels hold
AttentionInit(units, score_type, mask_index, kernels) ==
    [raised |-> "",
     obj |-> Some([units |-> units, score_type |-> score_type, mask_index |-> mask_index,
                   va |-> kernels.va, w1 |-> kernels.w1, w2 |-> kernels.w2, w3 |-> kernels.w3])]

\* a tensor of shape (B, L, 1) from one number per batch element and position
BL1(B, L, F(_, _)) == Seq1([b \in 1..B |-> Seq1([l \in 1..L |-> <<F(b, l)>>])])

\* (variant: every score type adds the projected coverage to its score)
ScoreECoverageEverywhere(self, enc_output, curr_dec_hidden, prev_coverage) ==
    LET B == Len(enc_output)
        L == Len(enc_output[1])
        De == Len(enc_output[1][1])
        Dd == Len(curr_dec_hidden[1][1])
        st == Lower(self.score_type)
        zero == [u \in 1..self.units |-> 0]
        w1e(b, l) == Dense(self.w1, self.units, enc_output[b][l])
        w2h(b) == Dense(self.w2, self.units, curr_dec_hidden[b][1])
        w3c(b, l) == Dense(self.w3, self.units, Val(prev_coverage)[b][l])
        cov(b, l) == IF IsNone(prev_coverage) THEN 0 ELSE Val(prev_coverage)[b][l][1]
        additive(b, l) == Dense(self.va, 1, [u \in 1..self.units |-> Tanh(w1e(b, l)[u] + w2h(b)[u] + (IF IsNone(prev_coverage) THEN zero ELSE w3c(b, l))[u])])[1]
        dot(b, l) == Sum(Mul(enc_output[b][l], curr_dec_hidden[b][1])) + cov(b, l)
        general(b, l) == Sum(Mul(enc_output[b][l], Dense(self.w1, self.units, curr_dec_hidden[b][1]))) + cov(b, l)
        cosine(b, l) == Sum(Mul(L2Normalize(enc_output[b][l]), L2Normalize(curr_dec_hidden[b][1]))) + cov(b, l)
    IN  IF st = STR_additive_concat THEN [raised |-> "", e |-> BL1(B, L, additive)]
        ELSE IF st = STR_dot_product
        THEN IF Broadcasts(De, Dd) THEN [raised |-> "", e |-> BL1(B, L, dot)]
             ELSE [raised |-> IncompatibleShapes, e |-> << >>]
        ELSE IF st = STR_general
        THEN IF Broadcasts(De, self.units) THEN [raised |-> "", e |-> BL1(B, L, general)]
             ELSE [raised |-> IncompatibleShapes, e |-> << >>]
        ELSE IF st = STR_cosine_similarity
        THEN IF Broadcasts(De, Dd) THEN [raised |-> "", e |-> BL1(B, L, cosine)]
             ELSE [raised |-> IncompatibleShapes, e |-> << >>]
        ELSE [raised |-> UnboundLocalError, e |-> << >>]

\* Attention.attention_score, the unnormalized score e of shape (B, L, 1):
\* the branch per score type, or the exception the branch's arithmetic
\* raises; no branch leaves e unbound
ScoreE(self, enc_output, curr_dec_hidden, prev_coverage) ==
    LET B == Len(enc_output)
        L == Len(enc_output[1])
        De == Len(enc_output[1][1])
        Dd == Len(curr_dec_hidden[1][1])
        st == Lower(self.score_type)
        zero == [u \in 1..self.units |-> 0]
        w1e(b, l) == Dense(self.w1, self.units, enc_output[b][l])
        w2h(b) == Dense(self.w2, self.units, curr_dec_hidden[b][1])
        w3c(b, l) == Dense(self.w3, self.units, Val(prev_coverage)[b][l])
        temp_vector(b) == Dense(self.w1, self.units, curr_dec_hidden[b][1])
        additive(b, l) == Dense(self.va, 1, [u \in 1..self.units |-> Tanh(w1e(b, l)[u] + w2h(b)[u] + (IF IsNone(prev_coverage) THEN zero ELSE w3c(b, l))[u])])[1]
        dot(b, l) == Sum(Mul(enc_output[b][l], curr_dec_hidden[b][1]))
        general(b, l) == Sum(Mul(enc_output[b][l], temp_vector(b)))
        cosine(b, l) == Sum(Mul(L2Normalize(enc_output[b][l]), L2Normalize(curr_dec_hidden[b][1])))
    IN  IF st = STR_additive_concat THEN [raised |-> "", e |-> BL1(B, L, additive)]
        ELSE IF st = STR_dot_product
        THEN IF Broadcasts(De, Dd) THEN [raised |-> "", e |-> BL1(B, L, dot)]
             ELSE [raised |-> IncompatibleShapes, e |-> << >>]
        ELSE IF st = STR_general
        THEN IF Broadcasts(De, self.units) THEN [raised |-> "", e |-> BL1(B, L, general)]
             ELSE [raised |-> IncompatibleShapes, e |-> << >>]
        ELSE IF st = STR_cosine_similarity
        THEN IF Broadcasts(De, Dd) THEN [raised |-> "", e |-> BL1(B, L, cosine)]
             ELSE [raised |-> IncompatibleShapes, e |-> << >>]
        ELSE [raised |-> UnboundLocalError, e |-> << >>]

\* tf.cast(encoder_pad_mask, dtype=e.dtype)
CastMask(encoder_pad_mask) == [b \in DOMAIN encoder_pad_mask |-> [l \in DOMAIN encoder_pad_mask[b] |-> encoder_pad_mask[b][l] * ONE]]

\* Attention.attention_score from the score on: squeeze, multiply by the
\* mask, expand, softmax over the positions
MaskedSoftmax(e, encoder_pad_mask) ==
    LET mask == CastMask(encoder_pad_mask)
        masked_e == [b \in DOMAIN e |-> [l \in DOMAIN e[b] |-> FxMul(e[b][l][1], mask[b][l])]]
    IN  Seq1([b \in DOMAIN e |-> LET w == Softmax(masked_e[b]) IN Seq1([l \in DOMAIN e[b] |-> <<w[l]>>])])

\* Attention.attention_score: the attention weights of shape (B, L, 1)
AttentionScore(self, enc_output, curr_dec_hidden, encoder_pad_mask, prev_coverage) ==
    LET r == ScoreE(self, enc_output, curr_dec_hidden, prev_coverage)
    IN  IF r.raised # "" THEN [raised |-> r.raised, attention_score |-> << >>]
        ELSE [raised |-> "", attention_score |-> MaskedSoftmax(r.e, encoder_pad_mask)]

\* tf.expand_dims(dec_hidden, 1)
ExpandDims1(dec_hidden) == Seq1([b \in DOMAIN dec_hidden |-> <<dec_hidden[b]>>])

\* tf.squeeze(t, -1) of a tensor whose last axis has length 1
SqueezeLast(t) == Seq1([b \in DOMAIN t |-> Seq1([l \in DOMAIN t[b] |-> t[b][l][1]])])

\* (variant: the coverage is overwritten by the current attention)
CoverageOverwriting(attention_score, prev_coverage) == Some(attention_score)

\* Attention.call, the coverage of a step that uses coverage
Coverage(attention_score, prev_coverage) ==
    IF IsNone(prev_coverage) THEN Some(attention_score)
    ELSE Some(Seq1([b \in DOMAIN attention_score |-> Seq1([l \in DOMAIN attention_score[b] |->
                  <<Val(prev_coverage)[b][l][1] + attention_score[b][l][1]>>])]))

\* tf.reduce_sum(attention_score * enc_output, axis=1) with attention_score
\* of shape (B, L, 1)
ContextVector(attention_score, enc_output) ==
    Seq1([b \in DOMAIN enc_output |-> Seq1([d \in DOMAIN enc_output[b][1] |->
        Sum([l \in DOMAIN enc_output[b] |-> FxMul(attention_score[b][l][1], enc_output[b][l][d])])])])

\* the same product with attention_score of shape (L, 1), broadcast over the batch
ContextVectorBroadcast(attention_score, enc_output) ==
    Seq1([b \in DOMAIN enc_output |-> Seq1([d \in DOMAIN enc_output[b][1] |->
        Sum([l \in DOMAIN enc_output[b] |-> FxMul(attention_score[l][1], enc_output[b][l][d])])])])

Raise(error) == [raised |-> error, ret |-> None]

\* Attention.call: (context_vector, attention weights, coverage), or the
\* exception it ends with.  Without coverage the returned tensor is unpacked
\* into two names, which iterates over its batch axis.
AttentionCall(self, dec_hidden, enc_output, encoder_pad_mask, use_coverage, prev_coverage) ==
    LET curr_dec_hidden == ExpandDims1(dec_hidden)
    IN  IF use_coverage
        THEN LET r == AttentionScore(self, enc_output, curr_dec_hidden, encoder_pad_mask, prev_coverage)
             IN  IF r.raised # "" THEN Raise(r.raised)
                 ELSE [raised |-> "",
                       ret |-> [context_vector |-> ContextVector(r.attention_score, enc_output),
                                attention_weights |-> SqueezeLast(r.attention_score),
                                coverage |-> Coverage(r.attention_score, prev_coverage)]]
        ELSE LET r == AttentionScore(self, enc_output, curr_dec_hidden, encoder_pad_mask, None)
             IN  IF r.raised # "" THEN Raise(r.raised)
                 ELSE IF Len(r.attention_score) < 2 THEN Raise(NotEnoughValues)
                 ELSE IF Len(r.attention_score) > 2 THEN Raise(TooManyValues)
                 ELSE LET attention_score == r.attention_score[1]
                      IN  [raised |-> "",
                           ret |-> [context_vector |-> ContextVectorBroadcast(attention_score, enc_output),
                                    attention_weights |-> [l \in DOMAIN attention_score |-> attention_score[l][1]],
                                    coverage |-> None]]

(***************************************************************************)
(* Operations on the attention layer                                       *)
(***************************************************************************)
\* attention = Attention(units, score_type=score_type, mask_index=mask_index)
NewAttention(units, score_type, mask_index, kernels) ==
    LET r == AttentionInit(units, score_type, mask_index, kernels)
    IN  /\ attention' = IF r.raised = "" THEN r.obj ELSE attention
        /\ call' = [op |-> "Attention.__init__",
                    args |-> [units |-> units, score_type |-> score_type],
                    raised |-> r.raised, ret |-> r.obj]
        /\ attns' = << >>

\* whether prev_coverage is the coverage the call before this one returned
Chained(prev_coverage) ==
    /\ call.op = "Attention.call"
    /\ call.raised = ""
    /\ attns # << >>
    /\ prev_coverage = call.ret.coverage

\* attention(dec_hidden, enc_out, pad_mask, use_coverage, prev_coverage);
\* attns records the attention distributions of the calls chained so far:
\* a call without previous coverage starts a chain, and a call that is given
\* the coverage the call before it returned extends it
CallAttention(dec_hidden, use_coverage, prev_coverage) ==
    /\ ~IsNone(attention)
    /\ LET r == AttentionCall(Val(attention), dec_hidden, enc_out, pad_mask, use_coverage, prev_coverage)
       IN  /\ call' = [op |-> "Attention.call",
                       args |-> [dec_hidden |-> dec_hidden, use_coverage |-> use_coverage,
                                 prev_coverage |-> prev_coverage],
                       raised |-> r.raised, ret |-> r.ret]
           /\ attns' = IF r.raised # "" \/ ~use_coverage THEN << >>
                       ELSE IF IsNone(prev_coverage) THEN <<r.ret.attention_weights>>
                       ELSE IF Chained(prev_coverage) THEN Append(attns, r.ret.attention_weights)
                       ELSE << >>
    /\ UNCHANGED attention

(***************************************************************************)
(* The inputs the attention layer is run on                                *)
(***************************************************************************)
\* last dimensions of the decoder states: 1 broadcasts against the encoder
\* output's MaxUnits, MaxUnits matches it, MaxUnits + 1 does neither
DecDims == {1, MaxUnits, MaxUnits + 1}

\* the (score_type, units) pairs the constructor is tried with: units is 0,
\* the default, where the score type has no use for it
AttentionConfigs ==
    {<<STR_additive_concat, MaxUnits>>, <<STR_general, MaxUnits>>, <<STR_general, MaxUnits + 1>>,
     <<STR_dot_product, 0>>, <<STR_cosine_similarity, 0>>, <<STR_Dot_Product, 0>>, <<STR_bilinear, MaxUnits>>}

\* an encoder output of shape (B, L, De): batch element b has one position
\* that stands out
EncSample(B, L, De) ==
    Seq1([b \in 1..B |-> Seq1([l \in 1..L |-> Seq1([d \in 1..De |->
        (IF l = ((b - 1) % L) + 1 THEN ONE ELSE -ONE) \div d])])])

\* a padding mask of shape (B, MaxLen): k real positions, then padding, in
\* the odd batch elements and no padding in the even ones
MaskSample(B, k) ==
    [b \in 1..B |-> [l \in 1..MaxLen |-> IF l <= k \/ b % 2 = 0 THEN 1 ELSE 0]]

\* a decoder state of shape (B, Dd)
DecSample(B, Dd, sign) ==
    Seq1([b \in 1..B |-> Seq1([d \in 1..Dd |-> ((IF b % 2 = 1 THEN sign ELSE -sign) * ONE) \div d])])

\* previous coverages of shape (B, MaxLen, 1)
CovSamples(B) ==
    {Some([b \in 1..B |-> [l \in 1..MaxLen |-> <<ONE \div 4>>]]),
     Some([b \in 1..B |-> [l \in 1..MaxLen |-> <<(l * ONE) \div MaxLen>>]])}

\* the values of the kernels of va, w1, w2, w3
KernelSample == [va |-> ONE, w1 |-> ONE \div 2, w2 |-> -(ONE \div 2), w3 |-> ONE]

BatchOf(t) == Len(t)
DimOf(t) == Len(t[1][1])

AttnFrame == UNCHANGED <<encoder, decoder, pointer, enc_out, pad_mask, main>>

AttnInit ==
    /\ encoder = None /\ decoder = None /\ attention = None /\ pointer = None
    /\ \E B \in 1..MaxBatch, k \in 1..MaxLen :
          enc_out = EncSample(B, MaxLen, MaxUnits) /\ pad_mask = MaskSample(B, k)
    /\ call = NoCall /\ attns = << >> /\ main = NoMain

AttnNewStep ==
    \E config \in AttentionConfigs :
        NewAttention(config[2], config[1], None, KernelSample) /\ AttnFrame

AttnCallStep ==
    \E Dd \in DecDims, use_coverage \in BOOLEAN :
        \E prev_coverage \in {None} \cup (IF use_coverage THEN CovSamples(BatchOf(enc_out)) ELSE {}) :
            CallAttention(DecSample(BatchOf(enc_out), Dd, 1), use_coverage, prev_coverage) /\ AttnFrame

AttnNext == AttnNewStep \/ AttnCallStep

\* single calls of the attention layer on every kind of input
SpecAttention == AttnInit /\ [][AttnNext]_vars

\* the coverage the next decode step is given
ThreadedCoverage ==
    IF call.op = "Attention.call" /\ call.raised = "" /\ attns # << >>
    THEN call.ret.coverage ELSE None

\* one decode step of a decode loop that uses coverage
DecodeStep ==
    /\ Len(attns) < MaxSteps
    /\ \E sign \in {0, 1} :
          CallAttention(DecSample(BatchOf(enc_out), DimOf(enc_out), sign), TRUE, ThreadedCoverage)
    /\ AttnFrame

DecodeNext == AttnNewStep \/ DecodeStep

\* decode loops that thread the coverage from step to step
SpecDecode == AttnInit /\ [][DecodeNext]_vars

(***************************************************************************)
(* Claims about the attention layer                                        *)
(***************************************************************************)
SupportedScore(score_type) ==
    Lower(score_type) \in {STR_additive_concat, STR_dot_product, STR_general, STR_cosine_similarity}

IsAttentionCall == call.op = "Attention.call"

\* the score type of the layer, lower-cased as attention_score reads it
ScoreTypeInUse == Lower(Val(attention).score_type)

\* the positions of a batch element the mask marks as real / as padding
RealPositions(b) == {l \in DOMAIN pad_mask[b] : pad_mask[b][l] = 1}
PaddedPositions(b) == {l \in DOMAIN pad_mask[b] : pad_mask[b][l] = 0}

RECURSIVE SumOver(_, _)
\* the sum of w[l] over the positions l in S
SumOver(w, S) == IF S = {} THEN 0 ELSE LET l == CHOOSE x \in S : TRUE IN w[l] + SumOver(w, S \ {l})

\* what "approximately" allows: one hundredth
Tolerance == ONE \div 100

\* C1: in a chain of calls with use_coverage true, the first without previous
\* coverage and each later one given the coverage the call before it
\* returned, the coverage returned by call t is the elementwise sum of the
\* attention distributions of calls 1..t; every distribution is
\* non-negative, so no position's coverage ever decreases.
C1_CoverageAccumulates ==
    attns # << >> =>
        /\ IsAttentionCall /\ call.raised = ""
        /\ Len(attns) <= MaxSteps
        /\ attns[Len(attns)] = call.ret.attention_weights
        /\ ~IsNone(call.ret.coverage)
        /\ \A b \in DOMAIN enc_out : \A l \in DOMAIN enc_out[b] :
              /\ Val(call.ret.coverage)[b][l] = <<Sum([t \in DOMAIN attns |-> attns[t][b][l]])>>
              /\ \A t \in DOMAIN attns : attns[t][b][l] >= 0

\* C1 witness: an additive-concat chain reached its last step with two
\* different attention distributions in it
C1_Witness ==
    /\ Len(attns) = MaxSteps
    /\ ScoreTypeInUse = STR_additive_concat
    /\ attns[1] # attns[2]
    /\ Val(call.ret.coverage)[1][1][1] = attns[1][1][1] + attns[2][1][1] + attns[3][1][1]

\* the score itself can be computed on the inputs of the last call
ValidInputs ==
    AttentionScore(Val(attention), enc_out, ExpandDims1(call.args.dec_hidden), pad_mask, None).raised = ""

\* C2: a call with use_coverage false on valid inputs of any batch size ends
\* normally and returns the context vector, the attention distribution of
\* every batch element, and no coverage.
C2_CallWithoutCoverageCompletes ==
    (IsAttentionCall /\ ~call.args.use_coverage /\ ValidInputs) =>
        /\ call.raised = ""
        /\ IsNone(call.ret.coverage)
        /\ Len(call.ret.context_vector) = Len(enc_out)
        /\ Len(call.ret.attention_weights) = Len(enc_out)

\* C3: for every score type the attention weights of a batch element sum to
\* 1 over its non-padded positions and are approximately 0 at its padded
\* positions.
C3_PaddingGetsNoWeight ==
    (IsAttentionCall /\ call.raised = "" /\ call.args.use_coverage) =>
        \A b \in DOMAIN pad_mask :
            /\ Abs(SumOver(call.ret.attention_weights[b], RealPositions(b)) - ONE) <= Tolerance
            /\ \A l \in PaddedPositions(b) : call.ret.attention_weights[b][l] <= Tolerance

\* C4: an unsupported score_type makes Attention.__init__ raise, so no layer
\* holds one and no forward pass starts with one.
C4_UnsupportedScoreTypeRefused ==
    /\ (call.op = "Attention.__init__" /\ ~SupportedScore(call.args.score_type)) => call.raised # ""
    /\ ~IsNone(attention) => SupportedScore(Val(attention).score_type)

\* C7: with dot-product, general or cosine-similarity scoring, a decoder
\* state whose dimensionality differs from the encoder output's makes the call
\* raise a shape-mismatch error of its own: the call neither returns a value
\* nor ends with the error of the elementwise product.
C7_DimensionMismatchValidated ==
    (/\ IsAttentionCall
     /\ call.args.use_coverage
     /\ ScoreTypeInUse \in {STR_dot_product, STR_general, STR_cosine_similarity}
     /\ Len(call.args.dec_hidden[1]) # DimOf(enc_out))
        => (call.raised # "" /\ call.raised # IncompatibleShapes)

\* the number a coverage holds at a position, 0 for an absent coverage
CoverageAt(coverage, b, l) == IF IsNone(coverage) THEN 0 ELSE Val(coverage)[b][l][1]

\* C10: under dot-product, general and cosine-similarity scoring a call with
\* use_coverage true returns the same attention distribution and the same
\* context vector for every prev_coverage, and its coverage differs from the
\* other call's by the difference of the two prev_coverage.
C10_CoverageIgnoredOutsideAdditive ==
    (/\ IsAttentionCall /\ call.raised = "" /\ call.args.use_coverage
     /\ ScoreTypeInUse \in {STR_dot_product, STR_general, STR_cosine_similarity}) =>
        \A other \in {None} \cup CovSamples(BatchOf(enc_out)) :
            LET r == AttentionCall(Val(attention), call.args.dec_hidden, enc_out, pad_mask, TRUE, other)
            IN  /\ r.raised = ""
                /\ r.ret.attention_weights = call.ret.attention_weights
                /\ r.ret.context_vector = call.ret.context_vector
                /\ \A b \in DOMAIN enc_out : \A l \in DOMAIN enc_out[b] :
                      CoverageAt(r.ret.coverage, b, l) - CoverageAt(call.ret.coverage, b, l)
                          = CoverageAt(other, b, l) - CoverageAt(call.args.prev_coverage, b, l)

\* C10 witness: a cosine-similarity call was given a previous coverage that
\* is not the same at every position, on a batch with a padded position
C10_Witness ==
    /\ IsAttentionCall /\ call.raised = "" /\ call.args.use_coverage
    /\ ScoreTypeInUse = STR_cosine_similarity
    /\ ~IsNone(call.args.prev_coverage)
    /\ Val(call.args.prev_coverage)[1][1] # Val(call.args.prev_coverage)[1][MaxLen]
    /\ PaddedPositions(1) # {}

(***************************************************************************)
(* Pointer                                                                 *)
(***************************************************************************)
\* Pointer.__init__: the layer object; `kernels` are the values the three
\* Dense(1) layers' kernels hold
PointerInit(kernels) ==
    [raised |-> "",
     obj |-> Some([w_s_reduce |-> kernels.w_s_reduce, w_i_reduce |-> kernels.w_i_reduce,
                   w_c_reduce |-> kernels.w_c_reduce])]

\* the argument of the sigmoid in Pointer.call, of shape (B, 1)
PointerLogit(self, context_vector, dec_hidden, dec_inp) ==
    Seq1([b \in DOMAIN dec_hidden |->
        <<Dense(self.w_s_reduce, 1, dec_hidden[b])[1] + Dense(self.w_c_reduce, 1, context_vector[b])[1]
            + Dense(self.w_i_reduce, 1, dec_inp[b])[1]>>])

\* Pointer.call: the generation probability, of shape (B, 1)
PointerCall(self, context_vector, dec_hidden, dec_inp) ==
    LET z == PointerLogit(self, context_vector, dec_hidden, dec_inp)
    IN  Seq1([b \in DOMAIN z |-> <<Sigmoid(z[b][1])>>])

\* pointer = Pointer()
NewPointer(kernels) ==
    LET r == PointerInit(kernels)
    IN  /\ pointer' = r.obj
        /\ call' = [op |-> "Pointer.__init__", args |-> << >>, raised |-> r.raised, ret |-> r.obj]

\* pointer(context_vector, dec_hidden, dec_inp)
CallPointer(context_vector, dec_hidden, dec_inp) ==
    /\ ~IsNone(pointer)
    /\ call' = [op |-> "Pointer.call",
                args |-> [context_vector |-> context_vector, dec_hidden |-> dec_hidden, dec_inp |-> dec_inp],
                raised |-> "",
                ret |-> PointerCall(Val(pointer), context_vector, dec_hidden, dec_inp)]
    /\ UNCHANGED pointer

\* the values the kernels of w_s_reduce, w_i_reduce, w_c_reduce are tried with
PointerKernels == [w_s_reduce : {ONE, -ONE}, w_i_reduce : {ONE, -ONE}, w_c_reduce : {ONE, -ONE}]

\* an input of shape (B, D) whose rows hold v, v/2, ...
PointerSample(B, D, v) == Seq1([b \in 1..B |-> Seq1([d \in 1..D |-> (v * ONE) \div d])])

PointerFrame == UNCHANGED <<encoder, decoder, attention, enc_out, pad_mask, attns, main>>

PointerInitState ==
    /\ encoder = None /\ decoder = None /\ attention = None /\ pointer = None
    /\ enc_out = << >> /\ pad_mask = << >>
    /\ call = NoCall /\ attns = << >> /\ main = NoMain

PointerNewStep == \E kernels \in PointerKernels : NewPointer(kernels) /\ PointerFrame

PointerCallStep ==
    \E B \in 1..MaxBatch, c \in {-2, 0, 2}, h \in {-2, 0, 2}, x \in {-2, 0, 2} :
        /\ CallPointer(PointerSample(B, MaxUnits, c), PointerSample(B, MaxUnits, h), PointerSample(B, 1, x))
        /\ PointerFrame

PointerNext == PointerNewStep \/ PointerCallStep

SpecPointer == PointerInitState /\ [][PointerNext]_vars

VocabSize == 20
EmbeddingDim == 8

\* the script's parameters
InputLength == 4
EncoderUnits == 10
BatchSize == 5
DecodeSteps == 3

\* how many of the random draws of x and of dec_prediction are tried
MaxDraws == 4

MissingArguments == "TypeError: call() missing 3 required positional arguments: 'encoder_pad_mask', 'use_coverage', and 'prev_coverage'"

\* the script's choice of decoder_units and attention_units
MainUnits(score_type, bidirectional, encoder_units) ==
    IF score_type = STR_additive_concat
    THEN [decoder_units |-> encoder_units, attention_units |-> encoder_units]
    ELSE IF score_type = STR_general
    THEN [decoder_units |-> encoder_units,
          attention_units |-> IF bidirectional THEN 2 * encoder_units ELSE encoder_units]
    ELSE [decoder_units |-> IF bidirectional THEN 2 * encoder_units ELSE encoder_units,
          attention_units |-> 0]

\* Encoder.call: the output sequence of shape (B, L, enc_units * directions)
\* and the number of final state tensors the recurrent layer hands back
EncoderCall(self, x, hidden) ==
    LET directions == IF self.bidirectional THEN 2 ELSE 1
        output == EncSample(Len(x), Len(x[1]), self.enc_units * directions)
    IN  IF Lower(self.rnn_type) = STR_gru
        THEN [raised |-> "", output |-> output, states |-> IF self.bidirectional THEN 2 ELSE 1]
        ELSE IF Lower(self.rnn_type) = STR_lstm
        THEN [raised |-> "", output |-> output, states |-> IF self.bidirectional THEN 4 ELSE 2]
        ELSE [raised |-> RnnError, output |-> << >>, states |-> 0]

\* attention(*args): the layer is called with positional arguments, which
\* are bound to call(self, dec_hidden, enc_output, encoder_pad_mask,
\* use_coverage, prev_coverage), none of which has a default
AttentionLayerCall(self, args) ==
    IF Len(args) # 5
    THEN Raise(MissingArguments)
    ELSE AttentionCall(self, args[1], args[2], args[3], args[4], args[5])

\* np.random.randint(0, vocab_size, size=(batch_size, input_length))
XDraw(s) == Seq1([b \in 1..BatchSize |-> Seq1([l \in 1..InputLength |-> (s + b * l) % VocabSize])])

\* np.random.randint(0, vocab_size, size=(batch_size, 1))
PredictionDraw(s, t) == Seq1([b \in 1..BatchSize |-> <<(s * b + t) % VocabSize>>])

MainStart ==
    [pc |-> "load", vocab_size |-> 0, embedding_dim |-> 0, decoder_units |-> 0, attention_units |-> 0,
     x |-> << >>, hidden |-> << >>, enc_states |-> 0, dec_hidden |-> << >>, dec_state |-> << >>,
     dec_prediction |-> << >>, predictions |-> << >>, i |-> 0, raised |-> "", printed |-> << >>]

MainFrame == UNCHANGED <<pointer, pad_mask>>

MainInit ==
    /\ encoder = None /\ decoder = None /\ attention = None /\ pointer = None
    /\ enc_out = << >> /\ pad_mask = << >>
    /\ call = NoCall /\ attns = << >> /\ main = MainStart

\* the parameters and the embedding matrix
MainLoad ==
    /\ main.pc = "load"
    /\ LET units == MainUnits(STR_cosine_similarity, TRUE, EncoderUnits)
       IN  main' = [main EXCEPT !.pc = "encoder", !.vocab_size = VocabSize, !.embedding_dim = EmbeddingDim,
                                !.decoder_units = units.decoder_units,
                                !.attention_units = units.attention_units]
    /\ UNCHANGED <<encoder, decoder, attention, enc_out, call, attns>>
    /\ MainFrame

MainNewEncoder ==
    /\ main.pc = "encoder"
    /\ NewEncoder(main.vocab_size, main.embedding_dim, EncoderUnits, BatchSize, STR_lstm, TRUE, Some("embedding_matrix"))
    /\ main' = [main EXCEPT !.pc = IF call'.raised = "" THEN "attention" ELSE "failed", !.raised = call'.raised]
    /\ UNCHANGED <<decoder, attention, enc_out, attns>>
    /\ MainFrame

MainNewAttention ==
    /\ main.pc = "attention"
    /\ NewAttention(main.attention_units, STR_cosine_similarity, None, KernelSample)
    /\ main' = [main EXCEPT !.pc = IF call'.raised = "" THEN "decoder" ELSE "failed", !.raised = call'.raised]
    /\ UNCHANGED <<encoder, decoder, enc_out>>
    /\ MainFrame

MainNewDecoder ==
    /\ main.pc = "decoder"
    /\ NewDecoder(main.vocab_size, main.embedding_dim, main.decoder_units, BatchSize, STR_lstm, Some("embedding_matrix"))
    /\ main' = [main EXCEPT !.pc = IF call'.raised = "" THEN "encode" ELSE "failed", !.raised = call'.raised]
    /\ UNCHANGED <<encoder, attention, enc_out, attns>>
    /\ MainFrame

\* x, hidden and the encoder's forward pass
MainEncode ==
    /\ main.pc = "encode"
    /\ \E s \in 1..MaxDraws :
          LET x == XDraw(s)
              hidden == InitializeHiddenState(Val(encoder), None)
              r == EncoderCall(Val(encoder), x, hidden.tensors)
          IN  /\ call' = [op |-> "Encoder.call", args |-> [x |-> x], raised |-> r.raised, ret |-> r.states]
              /\ enc_out' = r.output
              /\ main' = [main EXCEPT !.pc = IF r.raised = "" THEN "start" ELSE "failed", !.raised = r.raised,
                                       !.x = x, !.hidden = hidden.tensors, !.enc_states = r.states]
    /\ UNCHANGED <<encoder, decoder, attention, attns>>
    /\ MainFrame

\* the decoder's start vectors
MainStartVectors ==
    /\ main.pc = "start"
    /\ \E s \in 1..MaxDraws, t \in 0..MaxDraws :
          LET dec_hidden == Zeros(BatchSize, main.decoder_units)
          IN  main' = [main EXCEPT !.pc = "loop", !.dec_hidden = dec_hidden,
                                   !.dec_state = <<dec_hidden, dec_hidden>>,
                                   !.dec_prediction = PredictionDraw(s, t), !.predictions = << >>, !.i = 0]
    /\ UNCHANGED <<encoder, decoder, attention, enc_out, call, attns>>
    /\ MainFrame

\* one pass of  for i in range(3): the attention layer, then the decoder,
\* whose output's argmax is the step's prediction; after the last pass the
\* shape of the predictions is printed
MainLoopStep ==
    /\ main.pc = "loop"
    /\ main.i < DecodeSteps
    /\ LET r == AttentionLayerCall(Val(attention), <<main.dec_hidden, enc_out>>)
       IN  /\ call' = [op |-> "Attention.__call__", args |-> [given |-> 2], raised |-> r.raised, ret |-> r.ret]
           /\ IF r.raised # ""
              THEN main' = [main EXCEPT !.pc = "failed", !.raised = r.raised]
              ELSE \E s \in 1..MaxDraws, t \in 0..MaxDraws :
                      LET dec_prediction == PredictionDraw(s, t)
                          predictions == Append(main.predictions, [b \in 1..BatchSize |-> dec_prediction[b][1]])
                          last == main.i + 1 = DecodeSteps
                      IN  main' = [main EXCEPT !.pc = IF last THEN "done" ELSE "loop", !.i = main.i + 1,
                                               !.dec_prediction = dec_prediction, !.predictions = predictions,
                                               !.printed = IF last THEN <<Len(predictions), BatchSize>> ELSE << >>]
    /\ UNCHANGED <<encoder, decoder, attention, enc_out, attns>>
    /\ MainFrame

MainNext ==
    \/ MainLoad
    \/ MainNewEncoder
    \/ MainNewAttention
    \/ MainNewDecoder
    \/ MainEncode
    \/ MainStartVectors
    \/ MainLoopStep

SpecMain == MainInit /\ [][MainNext]_vars

\* the script has gone as far as it goes
MainStopped == main.pc \in {"done", "failed"}

\* C8: the end-to-end scenario runs its three decode steps to completion,
\* each calling the attention layer and then the decoder, and prints the
\* shape (3, 5) of a prediction sequence whose indices lie in [0, vocab_size).
C8_ScenarioCompletes ==
    /\ main.pc # "failed"
    /\ main.pc = "loop" => main.raised = ""
    /\ MainStopped =>
          /\ main.printed = <<DecodeSteps, BatchSize>>
          /\ \A i \in DOMAIN main.predictions : \A b \in 1..BatchSize :
                main.predictions[i][b] \in 0..(VocabSize - 1)

====
